---- MODULE Spec2Model ----
(***************************************************************************)
(* count_images.py: per-dataset image counting over a shared directory     *)
(* index, run sequentially or on a process pool.                           *)
(*                                                                         *)
(* Strings that the program inspects (paths, file names, extensions) are   *)
(* sequences of one-character strings, so that lower(), endswith() and     *)
(* os.path.join() are computed.  A Python dict is a function whose DOMAIN  *)
(* is its set of keys; None is the record NoneVal.                         *)
(***************************************************************************)
EXTENDS Integers, Sequences, FiniteSets, Bags, TLC

\* ------------------------------------------------------------------ bounds
MaxDatasets == 2
MaxDim == 3
MaxThreshold == 3

\* ------------------------------------------------------- Python primitives
NoneVal == [some |-> FALSE]
Some(v) == [some |-> TRUE, v |-> v]

\* dict.get(key)
DictGet(d, k) == IF k \in DOMAIN d THEN Some(d[k]) ELSE NoneVal

\* dict.get(key, default)
DictGetDefault(d, k, default) == IF k \in DOMAIN d THEN d[k] ELSE default

\* truth value of an optional number / string (None, 0 and "" are false)
TruthyInt(o) == o.some /\ o.v # 0
TruthyStr(o) == o.some /\ o.v # <<>>

\* str.lower() on the letters that occur in the modelled names
LowerChar(c) ==
    CASE c = "J" -> "j" [] c = "P" -> "p" [] c = "G" -> "g"
      [] c = "N" -> "n" [] c = "E" -> "e" [] c = "B" -> "b"
      [] c = "M" -> "m" [] c = "W" -> "w" [] OTHER -> c

StrLower(s) == [i \in 1..Len(s) |-> LowerChar(s[i])]

\* str.endswith(suffix)
EndsWith(s, suf) ==
    /\ Len(s) >= Len(suf)
    /\ SubSeq(s, Len(s) - Len(suf) + 1, Len(s)) = suf

\* os.path.join(root, file), POSIX
PathJoin(root, file) ==
    IF root = <<>> THEN file
    ELSE IF root[Len(root)] = "/" THEN root \o file
    ELSE root \o <<"/">> \o file

\* the extension list of is_valid_image_for_dataset
FilterExtensions ==
    << <<".", "j", "p", "g">>, <<".", "j", "p", "e", "g">>, <<".", "p", "n", "g">>,
       <<".", "b", "m", "p">>, <<".", "w", "e", "b", "p">> >>

\* mutant: the indexer's list lacks ".webp"
IndexerExtensionsNoWebp ==
    << <<".", "j", "p", "g">>, <<".", "j", "p", "e", "g">>, <<".", "p", "n", "g">>,
       <<".", "b", "m", "p">> >>

\* the extension list of get_all_image_paths
IndexerExtensions ==
    << <<".", "j", "p", "g">>, <<".", "j", "p", "e", "g">>, <<".", "p", "n", "g">>,
       <<".", "b", "m", "p">>, <<".", "w", "e", "b", "p">> >>

\* any(name.lower().endswith(ext) for ext in exts)
AnyEndsWith(name, exts) ==
    \E k \in 1..Len(exts) : EndsWith(StrLower(name), exts[k])

\* -------------------------------------------------------------- filesystem
\* A filesystem is [dirs, open]: dirs maps each existing directory to its
\* listing [dirs, files] (names, in listing order); open maps each file path
\* to what PIL's Image.open does on it: [ok |-> TRUE, size |-> <<w, h>>] or
\* [ok |-> FALSE, err |-> <exception>].
Dir_d == <<"/", "d">>
Dir_ds == <<"/", "d", "/", "s">>
Dir_e == <<"/", "e">>
Dir_missing == <<"/", "x">>

Name_a == <<"a", ".", "j", "p", "g">>
Name_b == <<"b", ".", "P", "N", "G">>
Name_notes == <<"n", ".", "t", "x", "t">>
Name_bad == <<"c", ".", "J", "p", "e", "g">>
Name_e == <<"e", ".", "w", "e", "b", "p">>
Name_noext == <<"j", "p", "g">>
Name_f == <<"f", ".", "b", "m", "p">>

Opened(w, h) == [ok |-> TRUE, size |-> <<w, h>>]
OpenFails(e) == [ok |-> FALSE, err |-> e]

OpenErrors == {"UnidentifiedImageError", "PermissionError"}

MkFS(outcome_a) ==
    [dirs |-> (Dir_d :> [dirs |-> << <<"s">> >>,
                         files |-> <<Name_a, Name_b, Name_notes, Name_bad>>])
           @@ (Dir_ds :> [dirs |-> <<>>, files |-> <<Name_e, Name_noext>>])
           @@ (Dir_e :> [dirs |-> <<>>, files |-> <<Name_f>>]),
     open |-> (PathJoin(Dir_d, Name_a) :> outcome_a)
           @@ (PathJoin(Dir_d, Name_b) :> Opened(1, 1))
           @@ (PathJoin(Dir_d, Name_notes) :> Opened(3, 3))
           @@ (PathJoin(Dir_d, Name_bad) :> OpenFails("UnidentifiedImageError"))
           @@ (PathJoin(Dir_ds, Name_e) :> Opened(2, 3))
           @@ (PathJoin(Dir_ds, Name_noext) :> Opened(3, 3))
           @@ (PathJoin(Dir_e, Name_f) :> Opened(3, 3))]

OpenOutcomes ==
    {Opened(w, h) : w \in 1..MaxDim, h \in 1..MaxDim} \cup {OpenFails(e) : e \in OpenErrors}

\* filesystem of the whole-program runs
RunFileSystems == {MkFS(Opened(3, 2))}

\* filesystems of the direct calls
CallFileSystems == {MkFS(o) : o \in OpenOutcomes}

AllFiles(f) == DOMAIN f.open

\* os.path.exists
PathExists(f, p) == p \in DOMAIN f.dirs \/ p \in DOMAIN f.open

\* filesystem operations, recorded as bags of [op, path]
FsOp(op, path) == SetToBag({[op |-> op, path |-> path]})

\* os.walk(top): the sequence of [root, files], top-down; a top that is no
\* directory yields nothing (os.walk ignores the listing error).
RECURSIVE OsWalk(_, _)
RECURSIVE OsWalkSubdirs(_, _, _, _)
OsWalkSubdirs(f, top, subs, k) ==
    IF k > Len(subs) THEN <<>>
    ELSE OsWalk(f, PathJoin(top, subs[k])) \o OsWalkSubdirs(f, top, subs, k + 1)

OsWalk(f, top) ==
    IF top \notin DOMAIN f.dirs THEN <<>>
    ELSE <<[root |-> top, files |-> f.dirs[top].files]>>
         \o OsWalkSubdirs(f, top, f.dirs[top].dirs, 1)

\* every os.path.join(root, file) of a walk, in walk order
RECURSIVE WalkedPaths(_, _)
WalkedPaths(walk, k) ==
    IF k > Len(walk) THEN <<>>
    ELSE [j \in 1..Len(walk[k].files) |-> [root |-> walk[k].root, file |-> walk[k].files[j]]]
         \o WalkedPaths(walk, k + 1)

\* ---------------------------------------------------------- the functions
\* Every function returns [exc, ret, ops]: the exception it raises ("none"
\* when it returns), its return value, and the filesystem operations it did.
NoExc == "none"

\* PIL.Image.open(path): a path that is no file raises FileNotFoundError
ImageOpen(f, path) ==
    IF path \in DOMAIN f.open THEN f.open[path] ELSE OpenFails("FileNotFoundError")

\* mutant: no try/except around Image.open
get_image_size_uncaught(f, image_path) ==
    LET img == ImageOpen(f, image_path) IN
    IF img.ok
    THEN [exc |-> NoExc, ret |-> Some(img.size), ops |-> FsOp("open", image_path)]
    ELSE [exc |-> img.err, ret |-> NoneVal, ops |-> FsOp("open", image_path)]

get_image_size(f, image_path) ==
    LET img == ImageOpen(f, image_path) IN
    IF img.ok
    THEN [exc |-> NoExc, ret |-> Some(img.size), ops |-> FsOp("open", image_path)]
    ELSE [exc |-> NoExc, ret |-> NoneVal, ops |-> FsOp("open", image_path)]

Min(a, b) == IF a <= b THEN a ELSE b

\* dataset.get("type") == "local" and dataset.get("dataset_type") != "text_embeds"
IsImageDataset(cfg) ==
    /\ DictGet(cfg, "type") = Some("local")
    /\ DictGet(cfg, "dataset_type") # Some("text_embeds")

\* mutant: exclusive bounds
SizeAcceptedStrict(cfg, size) ==
    LET min_dimension == IF size[1] <= size[2] THEN size[1] ELSE size[2]
        min_size == DictGet(cfg, "minimum_image_size")
        max_size == DictGet(cfg, "maximum_image_size")
    IN  IF TruthyInt(min_size) /\ min_dimension <= min_size.v THEN FALSE
        ELSE IF TruthyInt(max_size) /\ min_dimension >= max_size.v THEN FALSE
        ELSE TRUE

\* the threshold tests on min(width, height)
SizeAccepted(cfg, size) ==
    LET min_dimension == Min(size[1], size[2])
        min_size == DictGet(cfg, "minimum_image_size")
        max_size == DictGet(cfg, "maximum_image_size")
    IN  IF TruthyInt(min_size) /\ min_dimension < min_size.v THEN FALSE
        ELSE IF TruthyInt(max_size) /\ min_dimension > max_size.v THEN FALSE
        ELSE TRUE

\* mutant: the image is probed before the dataset kind is looked at
is_valid_probe_before_kind(f, image_path, cfg) ==
    IF ~AnyEndsWith(image_path, FilterExtensions)
    THEN [exc |-> NoExc, ret |-> FALSE, ops |-> EmptyBag]
    ELSE LET size_result == get_image_size(f, image_path) IN
         IF size_result.exc # NoExc
         THEN [exc |-> size_result.exc, ret |-> FALSE, ops |-> size_result.ops]
         ELSE IF ~size_result.ret.some \/ ~IsImageDataset(cfg)
         THEN [exc |-> NoExc, ret |-> FALSE, ops |-> size_result.ops]
         ELSE [exc |-> NoExc, ret |-> SizeAccepted(cfg, size_result.ret.v),
               ops |-> size_result.ops]

is_valid_image_for_dataset(f, image_path, cfg) ==
    IF ~AnyEndsWith(image_path, FilterExtensions)
    THEN [exc |-> NoExc, ret |-> FALSE, ops |-> EmptyBag]
    ELSE IF DictGet(cfg, "type") # Some("local")
            \/ DictGet(cfg, "dataset_type") = Some("text_embeds")
    THEN [exc |-> NoExc, ret |-> FALSE, ops |-> EmptyBag]
    ELSE LET size_result == get_image_size(f, image_path) IN
         IF size_result.exc # NoExc
         THEN [exc |-> size_result.exc, ret |-> FALSE, ops |-> size_result.ops]
         ELSE IF ~size_result.ret.some
         THEN [exc |-> NoExc, ret |-> FALSE, ops |-> size_result.ops]
         ELSE [exc |-> NoExc, ret |-> SizeAccepted(cfg, size_result.ret.v),
               ops |-> size_result.ops]

\* the filter applied to paths[k..]: the number accepted, the operations done,
\* and the first exception raised (the loop stops there)
RECURSIVE CountValid(_, _, _, _)
CountValid(f, cfg, paths, k) ==
    IF k > Len(paths) THEN [exc |-> NoExc, count |-> 0, ops |-> EmptyBag]
    ELSE LET v == is_valid_image_for_dataset(f, paths[k], cfg) IN
         IF v.exc # NoExc THEN [exc |-> v.exc, count |-> 0, ops |-> v.ops]
         ELSE LET rest == CountValid(f, cfg, paths, k + 1) IN
              [exc |-> rest.exc,
               count |-> (IF v.ret THEN 1 ELSE 0) + rest.count,
               ops |-> v.ops (+) rest.ops]

\* mutant: the list is filtered in place
CacheFilteredInPlace(f, cfg, paths) ==
    LET Keep(p) == is_valid_image_for_dataset(f, p, cfg).ret IN
    SelectSeq(paths, Keep)

\* what a call leaves in the list object it was handed
CacheAfterCount(f, cfg, paths) == paths

\* shared_image_cache is NoneVal (the default) or Some(list); the result also
\* carries `shared`, the list object as the call leaves it.
count_images_for_dataset(f, cfg, shared_image_cache) ==
    IF DictGet(cfg, "dataset_type") = Some("text_embeds")
       \/ DictGet(cfg, "type") # Some("local")
    THEN [exc |-> NoExc, ret |-> <<cfg["id"], 0>>, ops |-> EmptyBag,
          shared |-> shared_image_cache]
    ELSE LET instance_dir == DictGet(cfg, "instance_data_dir") IN
    IF ~TruthyStr(instance_dir)
    THEN [exc |-> NoExc, ret |-> <<cfg["id"], 0>>, ops |-> EmptyBag,
          shared |-> shared_image_cache]
    ELSE IF ~PathExists(f, instance_dir.v)
    THEN [exc |-> NoExc, ret |-> <<cfg["id"], 0>>,
          ops |-> FsOp("exists", instance_dir.v), shared |-> shared_image_cache]
    ELSE IF shared_image_cache.some
    THEN LET c == CountValid(f, cfg, shared_image_cache.v, 1) IN
         [exc |-> c.exc, ret |-> <<cfg["id"], c.count>>,
          ops |-> FsOp("exists", instance_dir.v) (+) c.ops,
          shared |-> Some(CacheAfterCount(f, cfg, shared_image_cache.v))]
    ELSE LET walked == WalkedPaths(OsWalk(f, instance_dir.v), 1)
             paths == [j \in 1..Len(walked) |-> PathJoin(walked[j].root, walked[j].file)]
             c == CountValid(f, cfg, paths, 1)
         IN  [exc |-> c.exc, ret |-> <<cfg["id"], c.count>>,
              ops |-> FsOp("exists", instance_dir.v) (+) FsOp("walk", instance_dir.v) (+) c.ops,
              shared |-> shared_image_cache]

get_all_image_paths(f, base_dir) ==
    LET walked == WalkedPaths(OsWalk(f, base_dir), 1)
        HasImageExt(e) == AnyEndsWith(e.file, IndexerExtensions)
        kept == SelectSeq(walked, HasImageExt)
    IN  [exc |-> NoExc,
         ret |-> [j \in 1..Len(kept) |-> PathJoin(kept[j].root, kept[j].file)],
         ops |-> FsOp("walk", base_dir)]

\* --------------------------------------------------------------- main()
\* mutant: a list with append() in place of the set
RECURSIVE BaseDirectoriesAppended(_, _)
BaseDirectoriesAppended(ds, k) ==
    IF k = 0 THEN <<>>
    ELSE LET acc == BaseDirectoriesAppended(ds, k - 1)
             instance_dir == DictGet(ds[k], "instance_data_dir")
         IN  IF /\ DictGet(ds[k], "type") = Some("local")
                /\ DictGet(ds[k], "dataset_type") # Some("text_embeds")
                /\ TruthyStr(instance_dir)
             THEN Append(acc, instance_dir.v)
             ELSE acc

\* the loop of lines 119-124; the Python set is the sequence of its distinct
\* elements (the order a set is iterated in plays no part in what follows)
RECURSIVE BaseDirectories(_, _)
BaseDirectories(ds, k) ==
    IF k = 0 THEN <<>>
    ELSE LET acc == BaseDirectories(ds, k - 1)
             instance_dir == DictGet(ds[k], "instance_data_dir")
         IN  IF /\ DictGet(ds[k], "type") = Some("local")
                /\ DictGet(ds[k], "dataset_type") # Some("text_embeds")
                /\ TruthyStr(instance_dir)
                /\ \A j \in 1..Len(acc) : acc[j] # instance_dir.v
             THEN Append(acc, instance_dir.v)
             ELSE acc

\* mutant: no filter on the dataset kind
AllDatasets(ds) == ds

\* image_datasets, line 133
ImageDatasets(ds) == SelectSeq(ds, IsImageDataset)

\* mutant: directory_image_cache[instance_dir]
CacheLookupStrict(cache, instance_dir) ==
    IF instance_dir.some /\ instance_dir.v \in DOMAIN cache
    THEN [exc |-> NoExc, ret |-> cache[instance_dir.v]]
    ELSE [exc |-> "KeyError", ret |-> <<>>]

\* directory_image_cache.get(instance_dir, [])
CacheLookup(cache, instance_dir) ==
    IF instance_dir.some /\ instance_dir.v \in DOMAIN cache
    THEN [exc |-> NoExc, ret |-> cache[instance_dir.v]]
    ELSE [exc |-> NoExc, ret |-> <<>>]

\* Python's order on the dataset ids in use
IdNames == <<"A", "B">>
IdRank(id) == CHOOSE r \in 1..Len(IdNames) : IdNames[r] = id

\* (id, count) tuples compare lexicographically
TupleLess(a, b) ==
    \/ IdRank(a.id) < IdRank(b.id)
    \/ a.id = b.id /\ a.count < b.count

\* mutant: the results are reported in the order collected
Unsorted(rs) == rs

\* sorted(): stable
RECURSIVE InsertSorted(_, _)
InsertSorted(sortedSeq, x) ==
    IF sortedSeq = <<>> THEN <<x>>
    ELSE IF TupleLess(x, sortedSeq[Len(sortedSeq)])
    THEN Append(InsertSorted(SubSeq(sortedSeq, 1, Len(sortedSeq) - 1), x),
                sortedSeq[Len(sortedSeq)])
    ELSE Append(sortedSeq, x)

RECURSIVE Sorted(_)
Sorted(rs) ==
    IF rs = <<>> THEN <<>>
    ELSE InsertSorted(Sorted(SubSeq(rs, 1, Len(rs) - 1)), rs[Len(rs)])

\* next((d for d in datasets if d["id"] == dataset_id), None).get("probability", "N/A")
Probability(ds, dataset_id) ==
    LET first == CHOOSE i \in 1..Len(ds) :
                    /\ ds[i]["id"] = dataset_id
                    /\ \A j \in 1..(i - 1) : ds[j]["id"] # dataset_id
    IN  DictGetDefault(ds[first], "probability", "N/A")

\* the rows printed by lines 162-166
ReportRows(ds, rs) ==
    LET sorted == Sorted(rs) IN
    [k \in 1..Len(sorted) |->
        <<sorted[k].id, sorted[k].count, Probability(ds, sorted[k].id)>>]

RECURSIVE SumCounts(_)
SumCounts(rs) ==
    IF rs = <<>> THEN 0 ELSE rs[Len(rs)].count + SumCounts(SubSeq(rs, 1, Len(rs) - 1))

\* mutant: a failed task is reported with a count of 0
FutureResultOrZero(fut) ==
    IF fut.state = "failed"
    THEN [exc |-> NoExc, ret |-> <<fut.dataset["id"], 0>>]
    ELSE [exc |-> NoExc, ret |-> fut.ret]

\* future.result(): the value, or the exception the task ended with
FutureResult(fut) ==
    IF fut.state = "failed"
    THEN [exc |-> fut.exc, ret |-> <<>>]
    ELSE [exc |-> NoExc, ret |-> fut.ret]

\* the counting call of lines 151-153 (and of a direct caller): look the list
\* up, then count with it
LookupAndCount(f, cache, dataset) ==
    LET image_cache == CacheLookup(cache, DictGet(dataset, "instance_data_dir")) IN
    IF image_cache.exc # NoExc
    THEN [exc |-> image_cache.exc, ret |-> <<>>, ops |-> EmptyBag, shared |-> NoneVal]
    ELSE count_images_for_dataset(f, dataset, Some(image_cache.ret))

\* ------------------------------------------------------------------ state
VARIABLES
    datasets,               \* the parsed configuration list
    fs,                     \* the filesystem (it does not change during a run)
    driver,                 \* "main": main() runs; "calls": the functions are called directly
    parallel,               \* args.parallel
    pc,                     \* where main() (or the caller) stands
    base_directories,       \* lines 119-124
    directory_image_cache,  \* lines 127-129
    index_ops,              \* filesystem operations of the indexing loop
    next_i,                 \* position of the running for loop
    futures,                \* parallel mode: k -> the future of image_datasets[k]
    collected,              \* parallel mode: the futures as_completed has yielded
    results,                \* the list `results`; `ds` is the position in image_datasets
    count_ops,              \* k -> filesystem operations of the counting call of image_datasets[k]
    report,                 \* the printed rows and total of this run
    last_report,            \* the rows and total printed by the previous completed run
    calls                   \* driver "calls": function name -> last direct call

vars == <<datasets, fs, driver, parallel, pc, base_directories, directory_image_cache,
          index_ops, next_i, futures, collected, results, count_ops, report,
          last_report, calls>>

Ids == {IdNames[r] : r \in 1..Len(IdNames)}

\* dataset entries of the whole-program runs (without their id)
RunBodies ==
    { [type |-> "local", instance_data_dir |-> Dir_d, minimum_image_size |-> 2],
      [type |-> "local", instance_data_dir |-> Dir_d, maximum_image_size |-> 2,
       probability |-> "0.5"],
      [type |-> "local", dataset_type |-> "text_embeds", instance_data_dir |-> Dir_e],
      [type |-> "aws", instance_data_dir |-> Dir_d],
      [type |-> "local", instance_data_dir |-> Dir_missing],
      [type |-> "local"],
      [type |-> "local", dataset_type |-> "image", instance_data_dir |-> <<>>] }

RunConfigs == {[id |-> i] @@ b : i \in Ids, b \in RunBodies}

RECURSIVE SeqsUpTo(_, _)
SeqsUpTo(S, n) ==
    IF n = 0 THEN {<<>>}
    ELSE LET shorter == SeqsUpTo(S, n - 1) IN
         shorter \cup {Append(q, x) : q \in {r \in shorter : Len(r) = n - 1}, x \in S}

\* dataset entries of the direct calls: every combination of the fields read
OptField(k, vals) == {<<>>} \cup {k :> v : v \in vals}

CallConfigs ==
    { [id |-> "A"] @@ t @@ dt @@ dir @@ mn @@ mx :
        t \in OptField("type", {"local", "aws"}),
        dt \in OptField("dataset_type", {"text_embeds"}),
        dir \in OptField("instance_data_dir", {<<>>, Dir_d, Dir_missing}),
        mn \in OptField("minimum_image_size", 0..MaxThreshold),
        mx \in OptField("maximum_image_size", 0..MaxThreshold) }

NoReport == [done |-> FALSE]

RunStart(par) ==
    /\ parallel = par
    /\ pc = "find_dirs"
    /\ base_directories = <<>>
    /\ directory_image_cache = <<>>
    /\ index_ops = EmptyBag
    /\ next_i = 1
    /\ futures = <<>>
    /\ collected = {}
    /\ results = <<>>
    /\ count_ops = <<>>
    /\ report = NoReport

Init ==
    /\ datasets \in SeqsUpTo(RunConfigs, MaxDatasets)
    /\ fs \in RunFileSystems
    /\ driver = "main"
    /\ \E par \in BOOLEAN : RunStart(par)
    /\ last_report = NoReport
    /\ calls = <<>>

InitCalls ==
    /\ datasets \in {<<c>> : c \in CallConfigs}
    /\ fs \in CallFileSystems
    /\ driver = "calls"
    /\ RunStart(FALSE)
    /\ last_report = NoReport
    /\ calls = <<>>

\* where main() goes once the cache is built
AfterIndexing ==
    IF driver = "calls" THEN "call_cached"
    ELSE IF ImageDatasets(datasets) = <<>> THEN "report"
    ELSE IF parallel THEN "submit"
    ELSE "count"

\* lines 119-124
FindBaseDirectories ==
    /\ pc = "find_dirs"
    /\ base_directories' = BaseDirectories(datasets, Len(datasets))
    /\ pc' = IF base_directories' = <<>> THEN AfterIndexing ELSE "index"
    /\ UNCHANGED <<datasets, fs, driver, parallel, directory_image_cache, index_ops,
                   next_i, futures, collected, results, count_ops, report,
                   last_report, calls>>

\* one iteration of the loop of lines 128-129
IndexDirectory ==
    /\ pc = "index"
    /\ LET base_dir == base_directories[next_i]
           r == get_all_image_paths(fs, base_dir)
       IN  /\ directory_image_cache' =
                 [d \in DOMAIN directory_image_cache \cup {base_dir} |->
                     IF d = base_dir THEN r.ret ELSE directory_image_cache[d]]
           /\ index_ops' = index_ops (+) r.ops
    /\ IF next_i = Len(base_directories)
       THEN next_i' = 1 /\ pc' = AfterIndexing
       ELSE next_i' = next_i + 1 /\ pc' = "index"
    /\ UNCHANGED <<datasets, fs, driver, parallel, base_directories, futures,
                   collected, results, count_ops, report, last_report, calls>>

\* the list object of directory_image_cache that a call was handed, as the
\* call left it (a default [] of .get() belongs to no entry)
StoreShared(cache, instance_dir, shared) ==
    IF instance_dir.some /\ instance_dir.v \in DOMAIN cache /\ shared.some
    THEN [cache EXCEPT ![instance_dir.v] = shared.v]
    ELSE cache

ResultOf(k, ret) == [ds |-> k, id |-> ret[1], count |-> ret[2]]

\* sequential mode: one iteration of the loop of lines 150-153
CountSequential ==
    /\ pc = "count"
    /\ LET dataset == ImageDatasets(datasets)[next_i]
           instance_dir == DictGet(dataset, "instance_data_dir")
           r == LookupAndCount(fs, directory_image_cache, dataset)
       IN  /\ count_ops' = count_ops @@ (next_i :> r.ops)
           /\ directory_image_cache' =
                 StoreShared(directory_image_cache, instance_dir, r.shared)
           /\ IF r.exc # NoExc
              THEN pc' = "crashed" /\ UNCHANGED <<results, next_i>>
              ELSE /\ results' = Append(results, ResultOf(next_i, r.ret))
                   /\ next_i' = next_i + 1
                   /\ pc' = IF next_i = Len(ImageDatasets(datasets))
                            THEN "report" ELSE "count"
    /\ UNCHANGED <<datasets, fs, driver, parallel, base_directories, index_ops,
                   futures, collected, report, last_report, calls>>

\* parallel mode: one iteration of the loop of lines 141-144; the task takes
\* its own copy of the dataset and of the list
Submit ==
    /\ pc = "submit"
    /\ LET dataset == ImageDatasets(datasets)[next_i]
           instance_dir == DictGet(dataset, "instance_data_dir")
           image_cache == CacheLookup(directory_image_cache, instance_dir)
       IN  IF image_cache.exc # NoExc
           THEN pc' = "crashed" /\ UNCHANGED <<futures, next_i>>
           ELSE /\ futures' = futures @@
                      (next_i :> [state |-> "pending", dataset |-> dataset,
                                  image_cache |-> image_cache.ret,
                                  ret |-> <<>>, exc |-> NoExc])
                /\ next_i' = next_i + 1
                /\ pc' = IF next_i = Len(ImageDatasets(datasets))
                         THEN "collect" ELSE "submit"
    /\ UNCHANGED <<datasets, fs, driver, parallel, base_directories,
                   directory_image_cache, index_ops, collected, results,
                   count_ops, report, last_report, calls>>

\* a worker process executes the task of future k
WorkerRun(k) ==
    /\ k \in DOMAIN futures
    /\ futures[k].state = "pending"
    /\ LET r == count_images_for_dataset(fs, futures[k].dataset,
                                         Some(futures[k].image_cache))
       IN  /\ count_ops' = count_ops @@ (k :> r.ops)
           /\ futures' = [futures EXCEPT ![k] =
                 IF r.exc # NoExc
                 THEN [@ EXCEPT !.state = "failed", !.exc = r.exc]
                 ELSE [@ EXCEPT !.state = "finished", !.ret = r.ret]]
    /\ UNCHANGED <<datasets, fs, driver, parallel, pc, base_directories,
                   directory_image_cache, index_ops, next_i, collected, results,
                   report, last_report, calls>>

\* the worker process of task k dies (killed, out of memory): the pool sets
\* BrokenProcessPool on the future
WorkerFail(k) ==
    /\ k \in DOMAIN futures
    /\ futures[k].state = "pending"
    /\ futures' = [futures EXCEPT ![k] =
                       [@ EXCEPT !.state = "failed", !.exc = "BrokenProcessPool"]]
    /\ UNCHANGED <<datasets, fs, driver, parallel, pc, base_directories,
                   directory_image_cache, index_ops, next_i, collected, results,
                   count_ops, report, last_report, calls>>

\* one iteration of the loop of lines 146-147: as_completed yields a future
\* that is done and not yet yielded; result() re-raises the task's exception,
\* which leaves main()
Collect(k) ==
    /\ pc = "collect"
    /\ k \in DOMAIN futures \ collected
    /\ futures[k].state # "pending"
    /\ collected' = collected \cup {k}
    /\ LET r == FutureResult(futures[k]) IN
       IF r.exc # NoExc
       THEN pc' = "crashed" /\ UNCHANGED results
       ELSE /\ results' = Append(results, ResultOf(k, r.ret))
            /\ pc' = IF collected' = DOMAIN futures THEN "report" ELSE "collect"
    /\ UNCHANGED <<datasets, fs, driver, parallel, base_directories,
                   directory_image_cache, index_ops, next_i, futures, count_ops,
                   report, last_report, calls>>

\* lines 161-169
Report ==
    /\ pc = "report"
    /\ report' = [done |-> TRUE, parallel |-> parallel,
                  rows |-> ReportRows(datasets, results),
                  total |-> SumCounts(results),
                  n |-> Len(results)]
    /\ pc' = "done"
    /\ UNCHANGED <<datasets, fs, driver, parallel, base_directories,
                   directory_image_cache, index_ops, next_i, futures, collected,
                   results, count_ops, last_report, calls>>

\* the program is started again on the same configuration and filesystem
NewRun ==
    /\ pc \in {"done", "crashed"}
    /\ \A k \in DOMAIN futures : futures[k].state # "pending"
    /\ last_report' = IF pc = "done" THEN report ELSE last_report
    /\ \E par \in BOOLEAN :
          /\ parallel' = par
          /\ pc' = "find_dirs"
          /\ base_directories' = <<>>
          /\ directory_image_cache' = <<>>
          /\ index_ops' = EmptyBag
          /\ next_i' = 1
          /\ futures' = <<>>
          /\ collected' = {}
          /\ results' = <<>>
          /\ count_ops' = <<>>
          /\ report' = NoReport
    /\ UNCHANGED <<datasets, fs, driver, calls>>

Next ==
    \/ FindBaseDirectories
    \/ IndexDirectory
    \/ CountSequential
    \/ Submit
    \/ \E k \in 1..MaxDatasets : WorkerRun(k)
    \/ \E k \in 1..MaxDatasets : WorkerFail(k)
    \/ \E k \in 1..MaxDatasets : Collect(k)
    \/ Report
    \/ NewRun

Spec == Init /\ [][Next]_vars

\* ------------------------------------------------------------ direct calls
\* After main()'s indexing loop over the one-entry configuration, a caller
\* invokes the functions on that entry: the counter with the indexed list,
\* the counter with no list, then the filter on any path.
Name_gone == <<"z", ".", "p", "n", "g">>

CallPaths(f) == AllFiles(f) \cup {PathJoin(Dir_d, Name_gone)}

CallCountCached ==
    /\ pc = "call_cached"
    /\ calls' = ("cached" :> LookupAndCount(fs, directory_image_cache, datasets[1]))
                 @@ calls
    /\ pc' = "call_fresh"
    /\ UNCHANGED <<datasets, fs, driver, parallel, base_directories,
                   directory_image_cache, index_ops, next_i, futures, collected,
                   results, count_ops, report, last_report>>

CallCountFresh ==
    /\ pc = "call_fresh"
    /\ calls' = ("fresh" :> count_images_for_dataset(fs, datasets[1], NoneVal)) @@ calls
    /\ pc' = "call_filter"
    /\ UNCHANGED <<datasets, fs, driver, parallel, base_directories,
                   directory_image_cache, index_ops, next_i, futures, collected,
                   results, count_ops, report, last_report>>

CallFilter(image_path) ==
    /\ pc = "call_filter"
    /\ calls' = ("filter" :> [path |-> image_path,
                              res |-> is_valid_image_for_dataset(fs, image_path, datasets[1])])
                @@ calls
    /\ UNCHANGED <<datasets, fs, driver, parallel, pc, base_directories,
                   directory_image_cache, index_ops, next_i, futures, collected,
                   results, count_ops, report, last_report>>

NextCalls ==
    \/ FindBaseDirectories
    \/ IndexDirectory
    \/ CallCountCached
    \/ CallCountFresh
    \/ \E image_path \in CallPaths(fs) : CallFilter(image_path)

SpecCalls == InitCalls /\ [][NextCalls]_vars

\* ================================================================ claims
\* the vocabulary of the claims
Countable(cfg) ==
    /\ "type" \in DOMAIN cfg /\ cfg["type"] = "local"
    /\ ~("dataset_type" \in DOMAIN cfg /\ cfg["dataset_type"] = "text_embeds")

HasDir(cfg) == "instance_data_dir" \in DOMAIN cfg /\ cfg["instance_data_dir"] # <<>>

DirMissing(cfg, f) == ~HasDir(cfg) \/ cfg["instance_data_dir"] \notin DOMAIN f.dirs

CountablePositions == {i \in 1..Len(datasets) : Countable(datasets[i])}

IndexingPhase == pc \in {"find_dirs", "index"}

WalkOf(d) == [op |-> "walk", path |-> d]

RECURSIVE WalksWhileCounting(_, _)
WalksWhileCounting(d, k) ==
    IF k = 0 THEN 0
    ELSE (IF k \in DOMAIN count_ops THEN CopiesIn(WalkOf(d), count_ops[k]) ELSE 0)
         + WalksWhileCounting(d, k - 1)

PairsOf(rows) == [k \in 1..Len(rows) |-> <<rows[k][1], rows[k][2]>>]

ResultsFor(k) == {j \in 1..Len(results) : results[j].ds = k}

\* ---- C1
\* C1: a sequential-mode run and a parallel-mode run over the same
\* configuration and filesystem print the same sorted (dataset_id, count)
\* sequence, whatever order the parallel workers completed in.
C1_OrderIndependence ==
    (report.done /\ last_report.done /\ report.parallel # last_report.parallel)
        => PairsOf(report.rows) = PairsOf(last_report.rows)

\* a parallel run that collected its second task first, after a sequential run
C1_Witness ==
    /\ report.done /\ last_report.done
    /\ report.parallel /\ ~last_report.parallel
    /\ Len(results) = 2 /\ results[1].ds = 2
    /\ report.rows[1][1] # report.rows[2][1]

\* ---- C2
\* C2: every non-empty instance_data_dir of a countable dataset is walked at
\* most once in a run, exactly once by the time the indexing loop is over, and
\* no counting call walks a directory.
C2_WalkedOnceBeforeCounting ==
    /\ \A i \in CountablePositions :
          HasDir(datasets[i]) =>
             LET d == datasets[i]["instance_data_dir"]
                 total == CopiesIn(WalkOf(d), index_ops)
                          + WalksWhileCounting(d, Len(datasets))
             IN  /\ total <= 1
                 /\ ~IndexingPhase => CopiesIn(WalkOf(d), index_ops) = 1
    /\ \A k \in DOMAIN count_ops :
          \A o \in BagToSet(count_ops[k]) : o.op # "walk"

\* two countable datasets sharing one existing directory, both counted in
\* parallel mode
C2_Witness ==
    /\ pc = "done" /\ parallel
    /\ Len(datasets) = 2 /\ CountablePositions = {1, 2}
    /\ HasDir(datasets[1]) /\ HasDir(datasets[2])
    /\ datasets[1]["instance_data_dir"] = Dir_d
    /\ datasets[2]["instance_data_dir"] = Dir_d
    /\ DOMAIN count_ops = {1, 2}

\* ---- C3
\* C3 as stated: at the end of a run the number of CountResults plus the
\* number of skipped datasets (non-local, text-embed or missing-directory)
\* equals the number of input datasets.
C3_AsStated ==
    pc = "done" =>
        Len(results)
        + Cardinality({i \in 1..Len(datasets) :
                          ~Countable(datasets[i]) \/ DirMissing(datasets[i], fs)})
        = Len(datasets)

\* C3 amended: at the end of a run there is exactly one CountResult per
\* countable dataset, a missing directory included, and the number of
\* CountResults plus the number of non-countable datasets equals the number
\* of input datasets.
C3_OneResultPerCountable ==
    pc = "done" =>
        /\ \A k \in 1..Cardinality(CountablePositions) :
              Cardinality(ResultsFor(k)) = 1
        /\ \A j \in 1..Len(results) :
              results[j].ds \in 1..Cardinality(CountablePositions)
        /\ \A id \in Ids :
              Cardinality({j \in 1..Len(results) : results[j].id = id})
              = Cardinality({i \in CountablePositions : datasets[i]["id"] = id})
        /\ Len(results)
           + Cardinality({i \in 1..Len(datasets) : ~Countable(datasets[i])})
           = Len(datasets)

\* a finished run over a countable dataset with a missing directory and a
\* non-countable dataset
C3_Witness ==
    /\ pc = "done"
    /\ Len(datasets) = 2
    /\ Countable(datasets[1]) /\ DirMissing(datasets[1], fs)
    /\ ~Countable(datasets[2])
    /\ Len(results) = 1

\* ---- C4
\* C4: for a dataset with type != "local" or dataset_type == "text_embeds",
\* the indexing loop, the counter (with or without a list) and the filter do
\* no filesystem operation, the counter returns (id, 0) and the filter rejects.
C4_NoAccessForNonCountable ==
    ~Countable(datasets[1]) =>
        /\ index_ops = EmptyBag
        /\ \A fn \in {"cached", "fresh"} :
              fn \in DOMAIN calls =>
                 /\ calls[fn].exc = NoExc
                 /\ calls[fn].ret = <<datasets[1]["id"], 0>>
                 /\ calls[fn].ops = EmptyBag
        /\ "filter" \in DOMAIN calls =>
              /\ calls["filter"].res.exc = NoExc
              /\ calls["filter"].res.ret = FALSE
              /\ calls["filter"].res.ops = EmptyBag

\* a text_embeds dataset over the existing directory /d, the filter called
\* on a readable .jpg of it
C4_Witness ==
    /\ ~Countable(datasets[1])
    /\ "dataset_type" \in DOMAIN datasets[1]
    /\ "type" \in DOMAIN datasets[1] /\ datasets[1]["type"] = "local"
    /\ HasDir(datasets[1]) /\ datasets[1]["instance_data_dir"] = Dir_d
    /\ {"cached", "fresh", "filter"} \subseteq DOMAIN calls
    /\ calls["filter"].path = PathJoin(Dir_d, Name_a)
    /\ fs.open[PathJoin(Dir_d, Name_a)].ok

\* ---- C5
\* C5: for a countable dataset whose directory exists, the counter returns
\* the same count with the indexer's list as with no list (a fresh walk) on
\* the same filesystem.
C5_CacheEquivalence ==
    (/\ Countable(datasets[1]) /\ ~DirMissing(datasets[1], fs)
     /\ {"cached", "fresh"} \subseteq DOMAIN calls)
        => /\ calls["cached"].exc = NoExc /\ calls["fresh"].exc = NoExc
           /\ calls["cached"].ret = calls["fresh"].ret

\* both calls made on /d with a threshold that keeps the .webp of the
\* subdirectory and drops the 1x1 .PNG
C5_Witness ==
    /\ Countable(datasets[1]) /\ ~DirMissing(datasets[1], fs)
    /\ {"cached", "fresh"} \subseteq DOMAIN calls
    /\ "minimum_image_size" \in DOMAIN datasets[1]
    /\ datasets[1]["minimum_image_size"] = 2
    /\ calls["fresh"].ret[2] >= 2
    /\ CopiesIn(WalkOf(Dir_d), calls["fresh"].ops) = 1
    /\ CopiesIn(WalkOf(Dir_d), calls["cached"].ops) = 0

\* ---- C6
\* C6: for a countable dataset and a readable file with an allowed extension
\* the filter accepts exactly when min(width, height) is within the
\* thresholds, bounds included, an absent or 0 threshold being no constraint.
ThresholdOf(cfg, key) == IF key \in DOMAIN cfg THEN cfg[key] ELSE 0

AllowedExtensions ==
    { <<".", "j", "p", "g">>, <<".", "j", "p", "e", "g">>, <<".", "p", "n", "g">>,
      <<".", "b", "m", "p">>, <<".", "w", "e", "b", "p">> }

C6_InclusiveThresholds ==
    ("filter" \in DOMAIN calls /\ Countable(datasets[1])) =>
        LET p == calls["filter"].path
            lo == ThresholdOf(datasets[1], "minimum_image_size")
            hi == ThresholdOf(datasets[1], "maximum_image_size")
        IN  (/\ \E e \in AllowedExtensions : EndsWith(StrLower(p), e)
             /\ p \in DOMAIN fs.open /\ fs.open[p].ok)
            => LET m == Min(fs.open[p].size[1], fs.open[p].size[2]) IN
               calls["filter"].res.ret
                  = ((lo = 0 \/ m >= lo) /\ (hi = 0 \/ m <= hi))

\* the smaller dimension equal to both thresholds, accepted
C6_Witness ==
    /\ "filter" \in DOMAIN calls /\ Countable(datasets[1])
    /\ calls["filter"].path = PathJoin(Dir_d, Name_a)
    /\ fs.open[PathJoin(Dir_d, Name_a)].ok
    /\ fs.open[PathJoin(Dir_d, Name_a)].size = <<3, 2>>
    /\ ThresholdOf(datasets[1], "minimum_image_size") = 2
    /\ ThresholdOf(datasets[1], "maximum_image_size") = 2
    /\ calls["filter"].res.ret = TRUE

\* ---- C7
\* C7: in parallel mode a task that failed is never reported: collecting it
\* ends the run without a report, and a run that reaches its report holds,
\* for every countable dataset, the result its task returned.
C7_WorkerFailureIsFatal ==
    /\ (\E k \in collected : futures[k].state = "failed")
          => (pc = "crashed" /\ ~report.done)
    /\ (parallel /\ pc \in {"report", "done"}) =>
          \A k \in 1..Cardinality(CountablePositions) :
             /\ k \in DOMAIN futures
             /\ futures[k].state = "finished"
             /\ \E j \in 1..Len(results) : results[j] = ResultOf(k, futures[k].ret)

\* a worker died, its future was collected after another one's result
C7_Witness ==
    /\ parallel /\ pc = "crashed"
    /\ Len(results) = 1
    /\ \E k \in collected :
          futures[k].state = "failed" /\ futures[k].exc = "BrokenProcessPool"

\* ---- C8
\* C8: a countable dataset whose instance_data_dir is absent, empty or not
\* on disk never makes the run fail (neither the lookup nor the counter
\* raises on it) and its count is 0.
MissingDirTask(k) == DirMissing(ImageDatasets(datasets)[k], fs)

C8_MissingDirectoryCountsZero ==
    /\ \A j \in 1..Len(results) :
          MissingDirTask(results[j].ds) => results[j].count = 0
    /\ \A k \in DOMAIN futures :
          (MissingDirTask(k) /\ futures[k].state = "failed")
             => futures[k].exc = "BrokenProcessPool"
    /\ (pc = "crashed" /\ next_i <= Len(ImageDatasets(datasets))
        /\ collected = {})
          => ~MissingDirTask(next_i)
    /\ pc = "done" =>
          \A k \in 1..Len(ImageDatasets(datasets)) :
             MissingDirTask(k) => \E j \in 1..Len(results) :
                results[j].ds = k /\ results[j].count = 0

\* a finished parallel run over a dataset without instance_data_dir and one
\* whose directory is not on disk
C8_Witness ==
    /\ pc = "done" /\ parallel
    /\ Len(datasets) = 2 /\ CountablePositions = {1, 2}
    /\ "instance_data_dir" \notin DOMAIN datasets[1]
    /\ HasDir(datasets[2]) /\ datasets[2]["instance_data_dir"] = Dir_missing
    /\ report.total = 0 /\ report.n = 2

\* ---- C9
\* C9: the counter and the filter never raise; a file whose probe fails is
\* rejected by the filter and is not counted, and the counter still returns
\* its (dataset_id, count).
IsPrefix(a, b) == Len(a) <= Len(b) /\ SubSeq(b, 1, Len(a)) = a

ReadableUnder(f, d) ==
    {p \in DOMAIN f.open : IsPrefix(d \o <<"/">>, p) /\ f.open[p].ok}

C9_ProbeFailureExcludes ==
    /\ \A fn \in {"cached", "fresh"} :
          fn \in DOMAIN calls =>
             /\ calls[fn].exc = NoExc
             /\ calls[fn].ret[1] = datasets[1]["id"]
             /\ calls[fn].ret[2] >= 0
             /\ HasDir(datasets[1]) =>
                   calls[fn].ret[2]
                      <= Cardinality(ReadableUnder(fs, datasets[1]["instance_data_dir"]))
             /\ ~HasDir(datasets[1]) => calls[fn].ret[2] = 0
    /\ "filter" \in DOMAIN calls =>
          /\ calls["filter"].res.exc = NoExc
          /\ (calls["filter"].path \notin DOMAIN fs.open
              \/ ~fs.open[calls["filter"].path].ok)
                => calls["filter"].res.ret = FALSE

\* a countable dataset over /d where two .jpg/.jpeg files cannot be opened:
\* both counter calls returned, the filter was called on one of the two
C9_Witness ==
    /\ Countable(datasets[1]) /\ HasDir(datasets[1])
    /\ datasets[1]["instance_data_dir"] = Dir_d
    /\ ~fs.open[PathJoin(Dir_d, Name_a)].ok
    /\ {"cached", "fresh", "filter"} \subseteq DOMAIN calls
    /\ calls["filter"].path = PathJoin(Dir_d, Name_a)
    /\ calls["cached"].ret[2] >= 1
    /\ CopiesIn([op |-> "open", path |-> PathJoin(Dir_d, Name_a)], calls["cached"].ops) = 1

\* ---- C10
\* C10: no step of the counting phase changes directory_image_cache, and
\* every result appended in it is the count of the dataset over the full
\* candidate list of its directory, whatever was counted before.
FullListCount(k) ==
    LET dataset == ImageDatasets(datasets)[k] IN
    IF HasDir(dataset)
    THEN count_images_for_dataset(fs, dataset,
            Some(get_all_image_paths(fs, dataset["instance_data_dir"]).ret)).ret[2]
    ELSE 0

C10_CountingStep ==
    (~IndexingPhase /\ pc' # "find_dirs") =>
        /\ directory_image_cache' = directory_image_cache
        /\ \A j \in (Len(results) + 1)..Len(results') :
              results'[j].count = FullListCount(results'[j].ds)

C10_CacheReadOnly == [][C10_CountingStep]_vars

\* a finished sequential run over two datasets that share /d with different
\* thresholds
C10_Witness ==
    /\ pc = "done" /\ ~parallel
    /\ Len(datasets) = 2 /\ CountablePositions = {1, 2}
    /\ HasDir(datasets[1]) /\ HasDir(datasets[2])
    /\ datasets[1]["instance_data_dir"] = Dir_d
    /\ datasets[2]["instance_data_dir"] = Dir_d
    /\ "minimum_image_size" \in DOMAIN datasets[1]
    /\ "maximum_image_size" \in DOMAIN datasets[2]
    /\ results[1].count # results[2].count
    /\ Len(directory_image_cache[Dir_d]) = 4

====
